---- MODULE Spec2Model ----
(***************************************************************************)
(* Model of copier.py: the event handler forward_message, the fingerprint  *)
(* table `forwarded` (is_duplicate / record_hash / cleanup_db), and the    *)
(* RateLimiter (acquire / handle_flood), run by concurrently scheduled     *)
(* asyncio tasks, one per incoming event.                                  *)
(*                                                                         *)
(* An action is one run of a task between two suspension points of the     *)
(* event loop: a task is suspended only while it waits for the semaphore,  *)
(* sleeps, or waits for the Telegram client to answer a send.              *)
(*                                                                         *)
(* Time advances in clock ticks (action Tick).  The code compares          *)
(* timestamps only through differences with the current time, so the       *)
(* model keeps every timestamp as its age (now - timestamp) and every      *)
(* sleep as the time it still has to run; an age stops growing at the      *)
(* largest value the code compares it with.  A sleep of d ticks ends at    *)
(* any time >= start + d, and the sink answers a call at any time.  All    *)
(* durations of GLOBAL_SETTINGS are given in ticks.                        *)
(*                                                                         *)
(* The calls of the logger and of the prometheus counters are taken to     *)
(* return without effect on the control flow, and WEBHOOK_URL to be unset  *)
(* (send_webhook returns at once).  The client dispatches every update in  *)
(* a task of its own, so handlers of different events overlap.             *)
(*                                                                         *)
(* Spec is one run of the program.  FairSpec adds the scheduling of the    *)
(* event loop (every runnable task runs, every call is answered, time      *)
(* passes).  SpecRestart adds the program being stopped and started again  *)
(* on the same database file.                                              *)
(***************************************************************************)
EXTENDS Integers, Sequences, FiniteSets, TLC

\* ---------------------------------------------------------------- bounds
NumHandlers == 2      \* handler tasks (events handed to the pipeline)
MaxFloodSeconds == 2  \* FloodWaitError.seconds ranges over 1..MaxFloodSeconds
MaxRestarts == 1      \* the program is started again at most MaxRestarts times

\* ------------------------------------------------- GLOBAL_SETTINGS (ticks)
rate_delay == 1
dedup_window == 2
retry_max == 3
backoff_factor == 2
\* cleanup_db keeps the rows that are at most this old
cleanup_retain == 3

\* ------------------------------------------------------- configuration
Filters ==
  [keywords |-> TRUE, regex |-> TRUE, min_length |-> 10, strict_mode |-> FALSE]

SOURCE_CHATS ==
  << [chat_id |-> 1, filters |-> Filters],
     [chat_id |-> 2, filters |-> Filters] >>

TARGET_CHATS ==
  << [chat_id |-> 2, rules |-> [allow_media |-> TRUE, allow_text |-> TRUE, anti_loop |-> TRUE]],
     [chat_id |-> 3, rules |-> [allow_media |-> TRUE, allow_text |-> TRUE, anti_loop |-> TRUE]] >>

Targets == 1..Len(TARGET_CHATS)

\* ------------------------------------------------------------ messages
\* What the filters of the configuration see of a text: its length, whether
\* it contains one of the keywords, whether the regex matches it.
TextInfo ==
  [t \in {"", "BUY SL 1900", "promo"} |->
     CASE t = "" -> [len |-> 0, has_keyword |-> FALSE, regex_match |-> FALSE]
       [] t = "BUY SL 1900" -> [len |-> 11, has_keyword |-> TRUE, regex_match |-> TRUE]
       [] t = "promo" -> [len |-> 5, has_keyword |-> FALSE, regex_match |-> FALSE]]

\* The events the sources may push (NewMessage events of the source chats).
Events ==
  { [chat_id |-> 1, id |-> 3, text |-> "BUY SL 1900", media |-> "", doc_id |-> 0],
    [chat_id |-> 1, id |-> 4, text |-> "BUY SL 1900", media |-> "", doc_id |-> 0],
    [chat_id |-> 1, id |-> 5, text |-> "promo", media |-> "", doc_id |-> 0],
    [chat_id |-> 2, id |-> 3, text |-> "BUY SL 1900", media |-> "", doc_id |-> 0],
    [chat_id |-> 2, id |-> 4, text |-> "", media |-> "document", doc_id |-> 7] }

NoEvent == [chat_id |-> 0, id |-> 0, text |-> "", media |-> "", doc_id |-> 0]

Handlers == 1..NumHandlers

Min(a, b) == IF a < b THEN a ELSE b
Max(a, b) == IF a > b THEN a ELSE b

RECURSIVE Pow(_, _)
Pow(b, n) == IF n = 0 THEN 1 ELSE b * Pow(b, n - 1)

VARIABLES
  hst,            \* per handler task: where it is suspended, and its locals
  delay,          \* RateLimiter.delay
  last_send_age,  \* loop.time() - RateLimiter.last_send, up to rate_delay
  holder,         \* RateLimiter.sem: the task holding the permit, 0 when free
  waiters,        \* RateLimiter.sem: tasks waiting for the permit, FIFO
  db,             \* rows of table forwarded, timestamp kept as age
  cooldown,       \* history: what is left of the retry-after of the floods so far
  runs            \* history: how often the program was started again

vars == <<hst, delay, last_send_age, holder, waiters, db, cooldown, runs>>

\* Fields of hst[h].  Locals of the task:
\*   pc         "idle", then where the task is suspended ("sem_wait",
\*              "acq_granted", "acq_sleep", "sending", "flood_sleep") or how it
\*              ended ("filtered", "duplicate", "done", "raised", or
\*              "abandoned" when the program stopped under it)
\*   ev, hash   event.message and build_hash(message)
\*   idx        index of the target in TARGET_CHATS
\*   attempt    0 in the try block; in handle_flood, the retries started
\*   sleep_left what is left of the sleep the task is in
\* History of the task:
\*   age        time since the task was started, up to dedup_window
\*   recent     the tasks started less than dedup_window before this one
\*   calls      calls of the delivery primitive for the current target
\*   delivered  per target, the calls the sink answered ok
\*   last_res   the answer to the latest call ("pending" while in flight)
\*   near       the tasks whose latest call was made less than rate_delay
\*              before the latest call of this task
\*   flood_left what is left of the retry-after of the latest flood error
\*              this task received
\*   call_age   time since the latest call of this task, up to rate_delay
\*   run        the run of the program in which the task was started
\*   throttled  the task has received a flood error
\*   behind     the targets for which this task, never throttled so far, made
\*              its call when a task of the same source started after it
\*              had already been delivered there
NewTask ==
  [pc |-> "idle", ev |-> NoEvent, hash |-> <<>>, idx |-> 0, attempt |-> 0,
   sleep_left |-> 0, age |-> 0, recent |-> {}, calls |-> 0, delivered |-> [i \in Targets |-> 0],
   last_res |-> "none", near |-> {}, flood_left |-> 0, call_age |-> rate_delay,
   throttled |-> FALSE, behind |-> {}, run |-> 0]

\* ------------------------------------------------------- pure functions
detect_media_type(message) == message.media

apply_filters(message, filters) ==
  IF message.text = "" /\ ~filters.strict_mode THEN TRUE
  ELSE IF filters.keywords /\ ~TextInfo[message.text].has_keyword THEN FALSE
  ELSE IF filters.regex /\ ~TextInfo[message.text].regex_match THEN FALSE
  ELSE IF TextInfo[message.text].len < filters.min_length THEN FALSE
  ELSE TRUE

\* sha256 of the joined parts, taken as collision free: the digest is
\* determined by, and determines, the parts.
build_hash(message) ==
  LET parts == <<message.text, message.id, detect_media_type(message)>>
  IN IF message.media = "document" THEN Append(parts, message.doc_id) ELSE parts

source_config(chat_id) ==
  SOURCE_CHATS[CHOOSE i \in 1..Len(SOURCE_CHATS) : SOURCE_CHATS[i].chat_id = chat_id]

\* ------------------------------------------------------ fingerprint table
\* record_hash as INSERT OR IGNORE: an existing row keeps its timestamp.
record_hash_ignore(rows, msg_hash, source_id, message_id) ==
  IF \E r \in rows : r.hash = msg_hash THEN rows
  ELSE rows \cup {[hash |-> msg_hash, source_id |-> source_id,
                   message_id |-> message_id, age |-> 0]}

\* timestamp > utcnow() - dedup_window
is_duplicate(rows, msg_hash, source_id) ==
  \E r \in rows : r.hash = msg_hash /\ r.source_id = source_id
                  /\ r.age < dedup_window

\* INSERT OR REPLACE: hash is the primary key; timestamp = utcnow().
record_hash(rows, msg_hash, source_id, message_id) ==
  {r \in rows : r.hash # msg_hash}
    \cup {[hash |-> msg_hash, source_id |-> source_id,
           message_id |-> message_id, age |-> 0]}

\* ------------------------------------------------- the machine as a record
Cur == [hst |-> hst, delay |-> delay, last_send_age |-> last_send_age, holder |-> holder,
        waiters |-> waiters, db |-> db, cooldown |-> cooldown, runs |-> runs]

Apply(m) ==
  /\ hst' = m.hst
  /\ delay' = m.delay
  /\ last_send_age' = m.last_send_age
  /\ holder' = m.holder
  /\ waiters' = m.waiters
  /\ db' = m.db
  /\ cooldown' = m.cooldown
  /\ runs' = m.runs

\* Semaphore.release: the permit goes to the first waiter, which becomes
\* runnable.
release(m) ==
  IF m.waiters = <<>> THEN [m EXCEPT !.holder = 0]
  ELSE LET w == Head(m.waiters)
       IN [m EXCEPT !.holder = w, !.waiters = Tail(@), !.hst[w].pc = "acq_granted"]

\* What perform_forward sends for this message under these rules.
forward_kind(message, rules) ==
  IF message.media # "" /\ rules.allow_media THEN "media"
  ELSE IF message.text # "" /\ rules.allow_text THEN "text"
  ELSE "none"

\* The call of client.forward_messages / client.send_message by task h for
\* target i; the task is suspended until the sink answers.
send_call(m, h, i) ==
  LET close == {g \in Handlers \ {h} : m.hst[g].call_age < rate_delay}
      overtaken == /\ ~m.hst[h].throttled
                   /\ \E g \in Handlers :
                        /\ g > h /\ m.hst[g].pc # "idle"
                        /\ m.hst[g].ev.chat_id = m.hst[h].ev.chat_id
                        /\ m.hst[g].delivered[i] >= 1
  IN [m EXCEPT !.hst = [g \in Handlers |->
        IF g = h
        THEN [@[g] EXCEPT !.pc = "sending", !.idx = i, !.calls = @ + 1,
                          !.last_res = "pending", !.near = close, !.call_age = 0,
                          !.behind = IF overtaken THEN @ \cup {i} ELSE @]
        ELSE [@[g] EXCEPT !.near = @ \ {h}]]]

RECURSIVE target_loop(_, _, _)

\* perform_forward, called in the try block of forward_message.
perform_forward(m, h, i) ==
  IF forward_kind(m.hst[h].ev, TARGET_CHATS[i].rules) = "none"
  THEN target_loop(m, h, i + 1)
  ELSE send_call(m, h, i)

\* RateLimiter.acquire from the write of last_send on.
acquire_finish(m, h, i) ==
  perform_forward(release([m EXCEPT !.last_send_age = 0]), h, i)

\* RateLimiter.acquire once the permit is held.
acquire_body(m, h, i) ==
  LET delta == m.last_send_age
  IN IF delta < m.delay
     THEN [m EXCEPT !.hst[h].pc = "acq_sleep", !.hst[h].idx = i,
                    !.hst[h].sleep_left = m.delay - delta]
     ELSE acquire_finish(m, h, i)

\* acquire without the semaphore: every task enters at once.
acquire_no_sem(m, h, i) ==
  acquire_body([m EXCEPT !.holder = h], h, i)

acquire(m, h, i) ==
  IF m.holder = 0
  THEN acquire_body([m EXCEPT !.holder = h], h, i)
  ELSE [m EXCEPT !.waiters = Append(@, h), !.hst[h].pc = "sem_wait", !.hst[h].idx = i]

\* The loop without the anti_loop test.
target_loop_no_anti_loop(m, h, i) ==
  IF i > Len(TARGET_CHATS)
  THEN [m EXCEPT !.db = record_hash(@, m.hst[h].hash, m.hst[h].ev.chat_id, m.hst[h].ev.id),
                 !.hst[h].pc = "done", !.hst[h].idx = i]
  ELSE acquire([m EXCEPT !.hst[h].attempt = 0, !.hst[h].calls = 0], h, i)

\* The loop over TARGET_CHATS from target i on, then record_hash.
target_loop(m, h, i) ==
  IF i > Len(TARGET_CHATS)
  THEN [m EXCEPT !.db = record_hash(@, m.hst[h].hash, m.hst[h].ev.chat_id, m.hst[h].ev.id),
                 !.hst[h].pc = "done", !.hst[h].idx = i]
  ELSE IF TARGET_CHATS[i].rules.anti_loop /\ m.hst[h].ev.chat_id = TARGET_CHATS[i].chat_id
  THEN target_loop(m, h, i + 1)
  ELSE acquire([m EXCEPT !.hst[h].attempt = 0, !.hst[h].calls = 0], h, i)

\* forward_message writing the fingerprint again when it meets a duplicate.
forward_message_refresh(m, h, event) ==
  LET msg_hash == build_hash(event)
      m1 == [m EXCEPT !.hst[h].ev = event, !.hst[h].hash = msg_hash,
                      !.hst[h].run = m.runs,
                      !.hst[h].recent = {g \in Handlers \ {h} :
                          m.hst[g].pc # "idle" /\ m.hst[g].age < dedup_window}]
  IN IF ~apply_filters(event, source_config(event.chat_id).filters)
     THEN [m1 EXCEPT !.hst[h].pc = "filtered"]
     ELSE IF is_duplicate(m.db, msg_hash, event.chat_id)
     THEN [m1 EXCEPT !.hst[h].pc = "duplicate",
                     !.db = record_hash(@, msg_hash, event.chat_id, event.id)]
     ELSE target_loop(m1, h, 1)

forward_message(m, h, event) ==
  LET msg_hash == build_hash(event)
      m1 == [m EXCEPT !.hst[h].ev = event, !.hst[h].hash = msg_hash,
                      !.hst[h].run = m.runs,
                      !.hst[h].recent = {g \in Handlers \ {h} :
                          m.hst[g].pc # "idle" /\ m.hst[g].age < dedup_window}]
  IN IF ~apply_filters(event, source_config(event.chat_id).filters)
     THEN [m1 EXCEPT !.hst[h].pc = "filtered"]
     ELSE IF is_duplicate(m.db, msg_hash, event.chat_id)
     THEN [m1 EXCEPT !.hst[h].pc = "duplicate"]
     ELSE target_loop(m1, h, 1)

\* handle_flood with one retry too many (range(max_retries + 1)).
handle_flood_extra_retry(m, h, attempt, seconds) ==
  IF attempt <= retry_max
  THEN [m EXCEPT !.hst[h].pc = "flood_sleep", !.hst[h].attempt = attempt + 1,
                 !.hst[h].sleep_left = seconds + Pow(backoff_factor, attempt)]
  ELSE [m EXCEPT !.hst[h].pc = "raised"]

\* handle_flood sleeping for the backoff only, without e.seconds.
handle_flood_backoff_only(m, h, attempt, seconds) ==
  IF attempt < retry_max
  THEN [m EXCEPT !.hst[h].pc = "flood_sleep", !.hst[h].attempt = attempt + 1,
                 !.hst[h].sleep_left = Pow(backoff_factor, attempt)]
  ELSE [m EXCEPT !.hst[h].pc = "raised"]

\* RateLimiter.handle_flood at the top of its loop, with `attempt` the loop
\* variable and e.seconds = seconds.
handle_flood(m, h, attempt, seconds) ==
  IF attempt < retry_max
  THEN [m EXCEPT !.hst[h].pc = "flood_sleep", !.hst[h].attempt = attempt + 1,
                 !.hst[h].sleep_left = seconds + Pow(backoff_factor, attempt)]
  ELSE [m EXCEPT !.hst[h].pc = "raised"]

\* The sink's answer to the call of task h.
answered(m, h, res, seconds) ==
  [m EXCEPT !.hst[h].last_res = res,
            !.hst[h].delivered[m.hst[h].idx] = IF res = "ok" THEN @ + 1 ELSE @,
            !.hst[h].flood_left = IF res = "flood" THEN seconds ELSE @,
            !.hst[h].throttled = (@ \/ res = "flood"),
            !.cooldown = IF res = "flood" THEN Max(@, seconds) ELSE @]

\* The task resumes with the sink's answer.
sink_reply(m, h, res, seconds) ==
  LET s == m.hst[h]
      m1 == answered(m, h, res, seconds)
  IN IF s.attempt = 0
     THEN \* in the try block of forward_message
          CASE res = "ok" -> target_loop(m1, h, s.idx + 1)
            [] res = "flood" -> handle_flood(m1, h, 0, seconds)
            [] res = "error" -> target_loop(m1, h, s.idx + 1)
     ELSE \* in handle_flood, called from the except clause
          CASE res = "ok" -> target_loop(m1, h, s.idx + 1)
            [] res = "flood" -> handle_flood(m1, h, s.attempt, seconds)
            [] res = "error" -> [m1 EXCEPT !.hst[h].pc = "raised"]

\* ------------------------------------------------------------- actions
\* last_send is 0.0 and loop.time() is any value of the monotonic clock.
Init ==
  /\ hst = [h \in Handlers |-> NewTask]
  /\ delay = rate_delay
  /\ last_send_age \in 0..rate_delay
  /\ holder = 0
  /\ waiters = <<>>
  /\ db = {}
  /\ cooldown = 0
  /\ runs = 0

\* main.handler: the client starts a task for a new message of a source chat.
\* Tasks are numbered in the order in which they are started.
handler(h, event) ==
  /\ hst[h].pc = "idle"
  /\ IF h = 1 THEN TRUE ELSE hst[h - 1].pc # "idle"
  /\ Apply(forward_message(Cur, h, event))

\* A task waiting for the semaphore got the permit and runs on.
SemGranted(h) ==
  /\ hst[h].pc = "acq_granted"
  /\ Apply(acquire_body(Cur, h, hst[h].idx))

\* The sleep inside acquire is over.
AcquireWake(h) ==
  /\ hst[h].pc = "acq_sleep"
  /\ hst[h].sleep_left = 0
  /\ Apply(acquire_finish(Cur, h, hst[h].idx))

\* The sink answers the call of task h.
SinkReply(h, res, seconds) ==
  /\ hst[h].pc = "sending"
  /\ Apply(sink_reply(Cur, h, res, seconds))

\* The sleep inside handle_flood is over: perform_forward is called again.
FloodWake(h) ==
  /\ hst[h].pc = "flood_sleep"
  /\ hst[h].sleep_left = 0
  /\ Apply(send_call(Cur, h, hst[h].idx))

\* DELETE FROM forwarded WHERE timestamp < utcnow() - cleanup_retain
cleanup_db ==
  /\ db' = {r \in db : ~(r.age > cleanup_retain)}
  /\ UNCHANGED <<hst, delay, last_send_age, holder, waiters, cooldown, runs>>

\* The program stops, at any point after its first event, and is started
\* again: the tasks that were under way are gone with the process, main
\* opens the database file again (init_db creates the table only when it is
\* missing, so the committed rows are still there) and the module builds a
\* new RateLimiter.
restart ==
  /\ runs < MaxRestarts
  /\ hst[1].pc # "idle"
  /\ runs' = runs + 1
  /\ hst' = [h \in Handlers |->
       IF hst[h].pc \in {"sem_wait", "acq_granted", "acq_sleep", "sending", "flood_sleep"}
       THEN [hst[h] EXCEPT !.pc = "abandoned", !.sleep_left = 0]
       ELSE hst[h]]
  /\ delay' = rate_delay
  /\ last_send_age' \in 0..rate_delay
  /\ holder' = 0
  /\ waiters' = <<>>
  /\ UNCHANGED <<db, cooldown>>

\* One tick of the clock.
Tick ==
  /\ hst' = [h \in Handlers |->
       [hst[h] EXCEPT !.sleep_left = Max(@ - 1, 0),
                      !.flood_left = Max(@ - 1, 0),
                      !.call_age = Min(@ + 1, rate_delay),
                      !.age = IF hst[h].pc = "idle" THEN 0 ELSE Min(@ + 1, dedup_window)]]
  /\ last_send_age' = Min(last_send_age + 1, rate_delay)
  /\ db' = {[r EXCEPT !.age = Min(@ + 1, cleanup_retain + 1)] : r \in db}
  /\ cooldown' = Max(cooldown - 1, 0)
  /\ UNCHANGED <<delay, holder, waiters, runs>>

Next ==
  \/ \E h \in Handlers, event \in Events : handler(h, event)
  \/ \E h \in Handlers : SemGranted(h)
  \/ \E h \in Handlers : AcquireWake(h)
  \/ \E h \in Handlers : SinkReply(h, "ok", 0)
  \/ \E h \in Handlers, s \in 1..MaxFloodSeconds : SinkReply(h, "flood", s)
  \/ \E h \in Handlers : SinkReply(h, "error", 0)
  \/ \E h \in Handlers : FloodWake(h)
  \/ cleanup_db
  \/ Tick

\* One run of the program.
Spec == Init /\ [][Next]_vars

\* The event loop runs every task that can run, a sleep ends when its time
\* is over, the sink answers every call, and time passes.
Fairness ==
  /\ \A h \in Handlers :
       /\ WF_vars(SemGranted(h))
       /\ WF_vars(AcquireWake(h))
       /\ WF_vars(FloodWake(h))
       /\ WF_vars(\E res \in {"ok", "flood", "error"}, s \in 0..MaxFloodSeconds :
                     SinkReply(h, res, s))
  /\ WF_vars(Tick)

\* One run of the program under fair scheduling.
FairSpec == Init /\ [][Next]_vars /\ Fairness

\* The program with its restarts.
NextRestart == Next \/ restart

SpecRestart == Init /\ [][NextRestart]_vars

\* Any step of task h.
TaskStep(h) ==
  \/ \E event \in Events : handler(h, event)
  \/ SemGranted(h)
  \/ AcquireWake(h)
  \/ \E res \in {"ok", "flood", "error"}, s \in 0..MaxFloodSeconds : SinkReply(h, res, s)
  \/ FloodWake(h)

\* Task h calls the delivery primitive in this step.
Calls(h) ==
  /\ hst'[h].pc = "sending"
  /\ hst[h].pc # "sending" \/ hst'[h].idx # hst[h].idx

TypeOK ==
  /\ holder \in 0..NumHandlers
  /\ delay = rate_delay
  /\ last_send_age \in 0..rate_delay
  /\ cooldown \in 0..MaxFloodSeconds
  /\ runs \in 0..MaxRestarts
  /\ \A h \in Handlers :
       /\ hst[h].pc \in {"idle", "sem_wait", "acq_granted", "acq_sleep", "sending",
                         "flood_sleep", "filtered", "duplicate", "done", "raised",
                         "abandoned"}
       /\ hst[h].attempt \in 0..retry_max
       /\ hst[h].pc = "sem_wait" <=> \E k \in 1..Len(waiters) : waiters[k] = h
       /\ hst[h].pc \in {"acq_granted", "acq_sleep"} => holder = h
  /\ \A r1, r2 \in db : r1.hash = r2.hash => r1 = r2

\* ================================================================ claims

SameFingerprint(h1, h2) ==
  /\ hst[h1].pc # "idle" /\ hst[h2].pc # "idle"
  /\ hst[h1].hash = hst[h2].hash
  /\ hst[h1].ev.chat_id = hst[h2].ev.chat_id

BothDelivered(h1, h2) ==
  \E i \in Targets : hst[h1].delivered[i] >= 1 /\ hst[h2].delivered[i] >= 1

\* C1 (dedup): of two events of one source with equal fingerprints, handled
\* within the dedup window of each other, at most one is delivered to a
\* given target, whatever the interleaving of the handler tasks.
C1_Dedup ==
  \A h1 \in Handlers, h2 \in Handlers :
    (h1 # h2 /\ SameFingerprint(h1, h2) /\ h1 \in hst[h2].recent)
      => ~BothDelivered(h1, h2)

\* C2: the table holds the fingerprint of an event only if a send of that
\* event was answered ok.
C2_RecordedOnlyIfDelivered ==
  \A r \in db :
    \E h \in Handlers :
      /\ hst[h].hash = r.hash /\ hst[h].ev.chat_id = r.source_id
      /\ \E i \in Targets : hst[h].delivered[i] >= 1

\* C3 (rate monotonicity): two sends that are both answered ok, by any tasks,
\* first attempts or retries, are called at least `delay` apart.
C3_RateGap ==
  \A h \in Handlers, g \in Handlers :
    ~(g \in hst[h].near /\ hst[h].last_res = "ok" /\ hst[g].last_res = "ok")

\* C4 (global freeze): after a flood error with retry-after r, no task calls
\* the delivery primitive before r has elapsed.
C4_GlobalFreeze ==
  [][\A h \in Handlers : Calls(h) => cooldown = 0]_vars

\* C5: at most one call of the delivery primitive is in flight.
C5_OneSendInFlight ==
  Cardinality({h \in Handlers : hst[h].pc = "sending"}) <= 1

\* C6: whatever the sink answers, forward_message returns normally: no
\* exception leaves it.
C6_NoErrorEscapes ==
  \A h \in Handlers : hst[h].pc # "raised"

\* C7 (bounded retries): a task calls the delivery primitive at most
\* 1 + retry_max times for a target; when all of these are answered by a flood
\* error the processing of the item has ended and the task takes no further
\* step.
C7_RetriesBounded ==
  \A h \in Handlers :
    /\ hst[h].calls <= 1 + retry_max
    /\ (hst[h].calls = 1 + retry_max /\ hst[h].last_res = "flood")
         => hst[h].pc = "raised"
    /\ hst[h].pc = "raised" => ~ENABLED TaskStep(h)

C7_Witness ==
  \E h \in Handlers :
    hst[h].pc = "raised" /\ hst[h].calls = 1 + retry_max /\ hst[h].last_res = "flood"

\* C8: a flood error strictly increases the delay of the rate limiter.
C8_ThrottleIncreasesDelay ==
  [][\A h \in Handlers :
       (hst[h].pc = "sending" /\ hst'[h].last_res = "flood") => delay' > delay]_vars

\* C9: a task that received a flood error with retry-after r calls the
\* delivery primitive again only when r has elapsed since that (most recent)
\* error, its sleep never being shorter than what is left of r, and the sink
\* accepts at most one send of the task per target.
C9_ThrottledItemWaits ==
  \A h \in Handlers :
    /\ hst[h].pc = "sending" => hst[h].flood_left = 0
    /\ hst[h].pc = "flood_sleep" => hst[h].sleep_left >= hst[h].flood_left
    /\ \A i \in Targets : hst[h].delivered[i] <= 1

\* Two flood errors, then the retry is accepted: delivered once.
C9_Witness ==
  \E h \in Handlers :
    /\ hst[h].pc = "done" /\ hst[h].attempt >= 2 /\ hst[h].last_res = "ok"
    /\ hst[h].delivered[Len(TARGET_CHATS)] = 1

SameContent(h1, h2) ==
  /\ hst[h1].pc # "idle" /\ hst[h2].pc # "idle"
  /\ hst[h1].ev.chat_id = hst[h2].ev.chat_id
  /\ hst[h1].ev.text = hst[h2].ev.text
  /\ hst[h1].ev.media = "" /\ hst[h2].ev.media = ""

\* C10: two events of one source with the same text and no media have the
\* same fingerprint whatever their ids, and at most one of them is delivered
\* to a given target.
C10_ContentFingerprint ==
  \A h1 \in Handlers, h2 \in Handlers :
    (h1 # h2 /\ SameContent(h1, h2)) =>
      /\ hst[h1].hash = hst[h2].hash
      /\ (h1 \in hst[h2].recent => ~BothDelivered(h1, h2))

\* C11 (ordering): of two events of one source, the one handed to
\* forward_message first is delivered to each target first, as long as it
\* was not retried: a task that was never throttled is not delivered to a
\* target for which it made its call after a task started later, for an
\* event of the same source, had been delivered there.
C11_Ordering ==
  \A h \in Handlers : \A i \in Targets :
    (i \in hst[h].behind /\ ~hst[h].throttled) => hst[h].delivered[i] = 0

\* C12 (read-after-write): an entry written by record_hash for a fingerprint
\* and a source stays visible to is_duplicate for that fingerprint and source
\* until its dedup window has elapsed, whatever step is taken, cleanup_db
\* included: a row younger than the window is still there after the step,
\* with the same source, one tick older at most.
C12_ReadAfterWrite ==
  [][\A r \in db : r.age < dedup_window =>
       \E r2 \in db' : /\ r2.hash = r.hash /\ r2.source_id = r.source_id
                        /\ r2.age <= r.age + 1]_vars

\* The events accepted by the handler and not yet finished.
Unfinished ==
  {h \in Handlers : hst[h].pc \in {"sem_wait", "acq_granted", "acq_sleep",
                                     "sending", "flood_sleep"}}

\* C15 (backpressure): the events accepted and not yet finished never exceed
\* a capacity; an event arriving at capacity is rejected.  Whatever capacity
\* below the number of events handed over is configured, the events handed
\* over are never all unfinished at once.
C15_Backpressure == Cardinality(Unfinished) < NumHandlers

\* The priority class of an event: 0 for signal-like content, 1 otherwise.
priority(event) == IF TextInfo[event.text].has_keyword THEN 0 ELSE 1

\* Task h has been started and has not called the delivery primitive yet.
WaitingToBeSent(h) ==
  /\ hst[h].pc \in {"sem_wait", "acq_granted", "acq_sleep"}
  /\ hst[h].last_res = "none"

\* C16 (priority): a priority-0 event that arrives while a priority-1 event
\* is still waiting to be sent is sent first: the priority-1 event is not
\* sent while the priority-0 event that arrived after it is waiting.
C16_Priority ==
  [][\A h1 \in Handlers, h2 \in Handlers :
       (/\ h1 < h2
        /\ WaitingToBeSent(h1) /\ priority(hst[h1].ev) = 1
        /\ WaitingToBeSent(h2) /\ priority(hst[h2].ev) = 0)
         => ~Calls(h1)]_vars

\* Task h runs record_hash in this step.
Records(h) == hst[h].pc # "done" /\ hst'[h].pc = "done"

\* The row of the fingerprint and source of task h, if any.
RowsOf(h) == {r \in db : r.hash = hst[h].hash /\ r.source_id = hst[h].ev.chat_id}

\* C17 as stated (record is idempotent): a second record_hash for a
\* fingerprint and source already in the table leaves the table as it is,
\* the expiry of the entry included.
C17_SecondRecordChangesNothing ==
  [][\A h \in Handlers : (Records(h) /\ RowsOf(h) # {}) => db' = db]_vars

\* C17 amended: a second record_hash for a fingerprint and source already in
\* the table leaves the same entries, one row for the fingerprint, and sets
\* the timestamp of that row to the time of the second call.
C17_SecondRecordRefreshes ==
  [][\A h \in Handlers : \A r \in RowsOf(h) :
       Records(h) => db' = (db \ {r}) \cup {[r EXCEPT !.age = 0]}]_vars

\* Two tasks have run record_hash for the same fingerprint and source.
C17_Witness ==
  \E h1 \in Handlers, h2 \in Handlers :
    /\ h1 # h2 /\ SameFingerprint(h1, h2)
    /\ hst[h1].pc = "done" /\ hst[h2].pc = "done"

Ended(h) == hst[h].pc \in {"filtered", "duplicate", "done", "raised"}

\* The termination half of C13: every task that was started ends.
EveryTaskEnds ==
  \A h \in Handlers : (hst[h].pc # "idle") ~> Ended(h)

\* C13: under fair scheduling and a sink that answers every call, every
\* forward_message run ends (discarded, delivered or failed), and every call
\* of the delivery primitive on the way is made through the rate gate, that
\* is right after acquire has set last_send to the current time.
C13_EndsThroughRateGate ==
  /\ EveryTaskEnds
  /\ [][\A h \in Handlers : Calls(h) => last_send_age' = 0]_vars

\* C14 (crash recovery): an event that a task processed to the end and
\* recorded in one run of the program is not delivered to any target when it
\* is handed to forward_message again in a later run.
C14_NoRedeliveryAfterRestart ==
  \A h1 \in Handlers, h2 \in Handlers :
    (/\ SameFingerprint(h1, h2) /\ hst[h1].ev = hst[h2].ev
     /\ hst[h1].run < hst[h2].run /\ hst[h1].pc = "done")
      => \A i \in Targets : hst[h2].delivered[i] = 0

\* Task h is started in this step and ends at once, filtered out or as a
\* duplicate.
Discarded(h) == hst[h].pc = "idle" /\ hst'[h].pc \in {"filtered", "duplicate"}

\* C18: an event that is filtered out or found to be a duplicate is discarded
\* without effect: nothing is sent, the rate limiter and the table are left
\* as they are (no timestamp is refreshed), and the task takes no further
\* step.
C18_DiscardHasNoEffect ==
  /\ [][\A h \in Handlers : Discarded(h) =>
          /\ db' = db
          /\ last_send_age' = last_send_age /\ delay' = delay
          /\ holder' = holder /\ waiters' = waiters
          /\ \A g \in Handlers : ~Calls(g)]_vars
  /\ [](\A h \in Handlers : hst[h].pc \in {"filtered", "duplicate"} =>
          /\ hst[h].calls = 0 /\ hst[h].last_res = "none"
          /\ \A i \in Targets : hst[h].delivered[i] = 0
          /\ ~ENABLED TaskStep(h))

\* A duplicate was discarded while its row had aged.
C18_Witness ==
  \E h \in Handlers :
    /\ hst[h].pc = "duplicate"
    /\ \E r \in RowsOf(h) : r.age > 0

\* acquire returns to task h in this step (the first call for a target
\* follows in the same step).
AcquireReturns(h) == Calls(h) /\ hst[h].pc # "flood_sleep"

\* C19: whenever acquire returns, at least `delay` has passed since it
\* returned last, for any interleaving of the tasks calling it; last_send is
\* only ever set to the current time, so it never decreases.
C19_AcquireSpacing ==
  [][/\ \A h \in Handlers : AcquireReturns(h) =>
           last_send_age >= delay /\ last_send_age' = 0
     /\ (hst' # hst /\ \E h \in Handlers : hst'[h].pc # hst[h].pc) =>
           last_send_age' \in {last_send_age, 0}]_vars

\* Two tasks have both passed acquire and have their first calls in flight.
C19_Witness ==
  \E h \in Handlers, g \in Handlers :
    /\ h # g
    /\ hst[h].pc = "sending" /\ hst[h].attempt = 0
    /\ hst[g].pc = "sending" /\ hst[g].attempt = 0

AntiLooped(h, i) ==
  TARGET_CHATS[i].rules.anti_loop /\ hst[h].ev.chat_id = TARGET_CHATS[i].chat_id

\* C20 (anti-loop): no task ever calls the delivery primitive, first attempt
\* or retry, for a target with anti_loop whose chat is the source chat of
\* its event, and a task that ran to the end has attempted its last target
\* unless that one was skipped too.
C20_AntiLoop ==
  \A h \in Handlers :
    /\ hst[h].pc \in {"sending", "flood_sleep"} => ~AntiLooped(h, hst[h].idx)
    /\ \A i \in Targets : AntiLooped(h, i) => hst[h].delivered[i] = 0
    /\ (hst[h].pc = "done" /\ ~AntiLooped(h, Len(TARGET_CHATS))) => hst[h].calls >= 1

\* An event of chat 2 skipped target 1 (chat 2) and was delivered to target 2.
C20_Witness ==
  \E h \in Handlers :
    /\ hst[h].pc = "done" /\ AntiLooped(h, 1)
    /\ hst[h].delivered[1] = 0 /\ hst[h].delivered[2] = 1
====
